---- MODULE Spec2Model ----
(***************************************************************************)
(* Model of the CELPP stage orchestrator of D3R:                           *)
(*   d3r/celpprunner.py  (_get_lock, run_stages, run_tasks,                *)
(*                        get_task_list_for_stage, main)                   *)
(*   d3r/celpp/glide.py  (GlideTask.can_run, GlideTask.run)                *)
(* Several operating-system processes (separate invocations of             *)
(* celpprunner) share one filesystem tree: the weekly dataset directory    *)
(* with one directory of marker files per task, and one pid lock file per  *)
(* stage.  Every step of a process is one filesystem operation or one      *)
(* block of process-local code.                                            *)
(***************************************************************************)
EXTENDS Integers, Sequences, FiniteSets, TLC

\* ---------------------------------------------------------------- bounds
NumProcs == 2
MaxStages == 2
MaxInvocations == 3
MaxTries == 1

\* ------------------------------------------------------- program constants
Procs == 1..NumProcs
NoPid == 0

UNKNOWN_STATUS == "unknown"
NOTFOUND_STATUS == "notfound"
START_STATUS == "start"
COMPLETE_STATUS == "complete"
ERROR_STATUS == "error"

START_FILE == "start"
COMPLETE_FILE == "complete"
ERROR_FILE == "error"
MarkerFiles == {START_FILE, COMPLETE_FILE, ERROR_FILE}

\* stage names accepted on the command line: the three stages the factory
\* knows and two ("dock", "score") that the help text names but no task
\* implements
KnownStages == {"import", "blast", "pdbprep"}
StageNames == KnownStages \cup {"dock", "score"}

NoTask == "none"
\* stage.1.dataimport is produced by an external script, the other three
\* directories by the tasks of the runner
Tasks == {"dataimport", "compinchi", "blastnfilter", "pdbprep"}

\* the stage names the modelled command lines are made of
Requested == {"blast", "pdbprep", "dock"}

\* -------------------------------------------------------- pure functions
\* a factory that has a task for every name
get_task_list_for_any_stage(stage_name) ==
    CASE stage_name = "import"  -> <<"compinchi">>
      [] stage_name = "blast"   -> <<"blastnfilter">>
      [] OTHER                  -> <<"pdbprep">>

\* get_task_list_for_stage: the tasks of a stage, an unknown name gives the
\* empty list (which the factory turns into NotImplementedError)
get_task_list_for_stage(stage_name) ==
    CASE stage_name = "import"  -> <<"compinchi">>
      [] stage_name = "blast"   -> <<"blastnfilter">>
      [] stage_name = "pdbprep" -> <<"pdbprep">>
      [] OTHER                  -> <<>>

\* the upstream task whose COMPLETE status a task requires in can_run
Upstream(task) ==
    CASE task = "blastnfilter" -> "dataimport"
      [] task = "pdbprep"      -> "blastnfilter"
      [] OTHER                 -> NoTask

Range(s) == {s[i] : i \in 1..Len(s)}

\* the status of the marker file written last
get_status_last_written(dir) ==
    IF dir = <<>> THEN NOTFOUND_STATUS
    ELSE CASE dir[Len(dir)] = COMPLETE_FILE -> COMPLETE_STATUS
           [] dir[Len(dir)] = ERROR_FILE    -> ERROR_STATUS
           [] OTHER                         -> START_STATUS

\* status of a task directory from the marker files found in it; dir is the
\* sequence of marker files of the directory in the order they were created
get_status_of_dir(dir) ==
    IF COMPLETE_FILE \in Range(dir) THEN COMPLETE_STATUS
    ELSE IF ERROR_FILE \in Range(dir) THEN ERROR_STATUS
    ELSE IF START_FILE \in Range(dir) THEN START_STATUS
    ELSE NOTFOUND_STATUS

\* creating a file that exists leaves the directory as it is
WriteMarker(dir, m) == IF m \in Range(dir) THEN dir ELSE Append(dir, m)

\* psutil.pid_exists: a pid is live while its process runs
Live == {"i_am_locking", "is_locked", "pid_exists",
         "break_lock", "acquire", "task_list", "can_run", "start",
         "run_external_command", "end", "release"}

VARIABLES
    weekly,      \* a <year>/dataset.week.<N> directory exists under celppdir
    markers,     \* task directory -> marker files in creation order
    lockfile,    \* stage -> pid recorded in celpprunner.<stage>.lockpid, 0: no file
    invocations, \* number of celpprunner processes started so far
    pc,          \* process -> position in the code
    stage_name,  \* process -> loop variable of run_stages
    idx,         \* process -> position of stage_name in theargs.stage.split(',')
    lock,        \* process -> stage of the object bound to local "lock", "none": unbound
    tries,       \* process -> failed attempts of the running acquire
    task,        \* process -> fields of the task object being run
    pending,     \* process -> what the try block of run_stages left with
    exit_code,   \* process -> result of run_tasks for the current stage
    result,      \* process -> how run_stages ended and the exit status
    hist,        \* process -> history of the invocation (observation only)
    rt_task_list, \* run_tasks on its own: the argument task_list
    rt_pos,      \* run_tasks on its own: position of the loop in the list, 0: not in it
    rt_calls,    \* run_tasks on its own: the positions run() was called on, in order
    rt_return,   \* run_tasks on its own: <<>>, or the value returned
    celppdir,    \* d3r.util on its own: the paths of the directories under celppdir
    latest_weekly, \* d3r.util on its own: <<>>, or <<the value found>>
    today,       \* d3r.util on its own: the date, a count of days
    celp_week,   \* d3r.util on its own: <<>>, or the (week, year) of today
    pot_target_dirs,   \* main_proteinprep on its own: the directories under
                       \* challenge_data_path, of each what the loop reads
    pot_target_id,     \* position of the loop over pot_target_dirs
    valid_candidates,  \* positions of the directories with a key
    center_txt,        \* positions of the directories with a center.txt
    prep_end           \* "off", "loop", "prepare", "returned", or the exception
                       \* that ended main_proteinprep

\* the frame of a call of run_tasks looked at on its own
rtvars == <<rt_task_list, rt_pos, rt_calls, rt_return>>

\* what the functions of d3r.util looked at on their own read and give
utilvars == <<celppdir, latest_weekly, today, celp_week>>

\* what main_proteinprep looked at on its own reads and leaves
prepvars == <<pot_target_dirs, pot_target_id, valid_candidates, center_txt, prep_end>>

vars == <<weekly, markers, lockfile, invocations, pc, stage_name, idx, lock, tries,
          task, pending, exit_code, result, hist, rtvars, utilvars, prepvars>>

fsvars == <<weekly, markers, lockfile>>

\* every pid found in a lock file counts as live
pid_exists_recorded(pid) == pid \in Procs

\* no pid counts as live
pid_exists_never(pid) == FALSE

pid_exists(pid) == pid \in Procs /\ pc[pid] \in Live

NewTask == [name |-> NoTask, status |-> UNKNOWN_STATUS, upstatus |-> UNKNOWN_STATUS,
            can_run |-> "None", error |-> <<>>]

\* how run_stages ended ("return" with a value, or "raise") and the exit
\* status of the process
NoResult == [how |-> "none", value |-> 0, exit |-> 0]

\* acquired: returns of _get_lock; released: calls of lock.release();
\* failed_at: position of the first stage that failed, 0: none;
\* done: stages that ran and released without a failure;
\* stale: when the running _get_lock began the lock file of its stage
\* recorded the pid of a dead process;
\* own: when the running _get_lock began the lock file of its stage
\* recorded the pid of the caller;
\* solo: the count of invocations when the running _get_lock began with no
\* other process alive, 0: another process was alive
NewHist == [acquired |-> 0, released |-> 0, failed_at |-> 0, done |-> 0,
            stale |-> FALSE, own |-> FALSE, solo |-> 0]

\* the notes on the running _get_lock end with the step after it
LeaveGetLock(h) == [h EXCEPT !.stale = FALSE, !.own = FALSE, !.solo = 0]

\* _get_lock begins: what the history notes of it
EnterGetLock(h, p, started, recorded) ==
    [h EXCEPT !.stale = recorded \in Procs \ {p} /\ pc[recorded] \notin Live,
              !.own = recorded = p,
              !.solo = IF \A q \in Procs \ {p} : pc[q] \notin Live THEN started ELSE 0]

\* no celpprunner process runs
NoProcess ==
    /\ invocations = 0
    /\ pc = [p \in Procs |-> "off"]
    /\ stage_name = [p \in Procs |-> "none"]
    /\ idx = [p \in Procs |-> 0]
    /\ lock = [p \in Procs |-> "none"]
    /\ tries = [p \in Procs |-> 0]
    /\ task = [p \in Procs |-> NewTask]
    /\ pending = [p \in Procs |-> "none"]
    /\ exit_code = [p \in Procs |-> 0]
    /\ result = [p \in Procs |-> NoResult]
    /\ hist = [p \in Procs |-> NewHist]

\* the argument of run_tasks: None, or a list of task objects.  Of a task
\* object run_tasks sees its error and what its run() does
NoList == [none |-> TRUE, tasks |-> <<>>]

\* run_tasks is not looked at on its own
NoRunTasks ==
    /\ rt_task_list = NoList
    /\ rt_pos = 0
    /\ rt_calls = <<>>
    /\ rt_return = <<>>

\* the functions of d3r.util are not looked at on their own
NoUtil ==
    /\ celppdir = {}
    /\ latest_weekly = <<>>
    /\ today = 0
    /\ celp_week = <<>>

\* main_proteinprep is not looked at on its own
NoProteinPrep ==
    /\ pot_target_dirs = <<>>
    /\ pot_target_id = 0
    /\ valid_candidates = {}
    /\ center_txt = {}
    /\ prep_end = "off"

\* an empty celppdir
Init ==
    /\ weekly = FALSE
    /\ markers = [t \in Tasks |-> <<>>]
    /\ lockfile = [s \in StageNames |-> NoPid]
    /\ NoProcess
    /\ NoRunTasks
    /\ NoUtil
    /\ NoProteinPrep

\* ------------------------------------------------------------ the runner
\* the exception is logged and the process ends with status 0
MainExit_zero(how, value) == [how |-> how, value |-> value, exit |-> 0]

\* main: the value run_stages returns is dropped, an exception that leaves
\* run_stages makes the process exit with status 2
MainExit(how, value) ==
    [how |-> how, value |-> value, exit |-> IF how = "raise" THEN 2 ELSE 0]

\* the process ends: only its result and its history stay to be observed
Exit(p, how, value, h) ==
    /\ pc' = [pc EXCEPT ![p] = "exited"]
    /\ result' = [result EXCEPT ![p] = MainExit(how, value)]
    /\ hist' = [hist EXCEPT ![p] = LeaveGetLock(h)]
    /\ stage_name' = [stage_name EXCEPT ![p] = "none"]
    /\ idx' = [idx EXCEPT ![p] = 0]
    /\ lock' = [lock EXCEPT ![p] = "none"]
    /\ tries' = [tries EXCEPT ![p] = 0]
    /\ task' = [task EXCEPT ![p] = NewTask]
    /\ pending' = [pending EXCEPT ![p] = "none"]
    /\ exit_code' = [exit_code EXCEPT ![p] = 0]

\* the result of find_latest_weekly_dataset is not looked at
latest_weekly_is_None_never(found) == FALSE

\* run_stages: "if theargs.latest_weekly is None"; found: a dataset
\* directory exists under celppdir
latest_weekly_is_None(found) == ~found

\* a new celpprunner process with pid p runs main and run_stages up to the
\* loop: optional creation of this week's directory, then
\* find_latest_weekly_dataset; without a dataset run_stages returns 0.
\* The stage list is fixed by the command line; the model draws each of its
\* names when the loop reaches it, which gives the same runs
RunStagesBegin(p) ==
    /\ pc[p] \notin Live
    /\ invocations < MaxInvocations
    /\ invocations' = invocations + 1
    /\ \E createweekdir \in BOOLEAN, first \in Requested :
          /\ weekly' = (weekly \/ createweekdir)
          /\ IF ~latest_weekly_is_None(weekly')
               THEN /\ pc' = [pc EXCEPT ![p] = "i_am_locking"]
                    /\ stage_name' = [stage_name EXCEPT ![p] = first]
                    /\ idx' = [idx EXCEPT ![p] = 1]
                    /\ result' = [result EXCEPT ![p] = NoResult]
                    /\ hist' = [hist EXCEPT ![p] = EnterGetLock(NewHist, p, invocations', lockfile[first])]
                    /\ lock' = [lock EXCEPT ![p] = "none"]
                    /\ tries' = [tries EXCEPT ![p] = 0]
                    /\ task' = [task EXCEPT ![p] = NewTask]
                    /\ pending' = [pending EXCEPT ![p] = "none"]
                    /\ exit_code' = [exit_code EXCEPT ![p] = 0]
               ELSE Exit(p, "return", 0, NewHist)
    /\ UNCHANGED <<markers, lockfile>>
    /\ UNCHANGED rtvars
    /\ UNCHANGED utilvars
    /\ UNCHANGED prepvars

\* what can leave the try block of run_stages early: "return exit_code", the
\* Exception of _get_lock, the LockTimeout of acquire, the
\* NotImplementedError of get_task_list_for_stage
Exceptions == {"Exception", "LockTimeout", "NotImplementedError"}

\* the try block of run_stages is left early: by an exception, or by
\* "return exit_code" after a non-zero result of run_tasks
Leave(p, how, code) ==
    /\ pending' = [pending EXCEPT ![p] = how]
    /\ exit_code' = [exit_code EXCEPT ![p] = code]
    /\ pc' = [pc EXCEPT ![p] = "release"]

\* the loop of run_stages goes on whatever run_tasks returned
AfterRunTasks_continue(p, code) == Leave(p, "none", code)

\* run_tasks has returned code to run_stages
AfterRunTasks(p, code) == Leave(p, IF code # 0 THEN "return" ELSE "none", code)

NoteFailure(h, i, failed) ==
    IF failed /\ h.failed_at = 0 THEN [h EXCEPT !.failed_at = i] ELSE h

\* no lock file counts as the caller's own
i_am_locking_never(p, s) == FALSE

\* PIDLockFile.i_am_locking: the lock file exists and records the pid of
\* the caller
i_am_locking(p, s) == lockfile[s] = p

\* _get_lock: lock.i_am_locking()
IAmLocking(p) ==
    /\ pc[p] = "i_am_locking"
    /\ pc' = [pc EXCEPT ![p] = IF i_am_locking(p, stage_name[p])
                                 THEN "break_lock" ELSE "is_locked"]
    /\ UNCHANGED <<fsvars, invocations, stage_name, idx, lock, tries, task, pending,
                   exit_code, result, hist>>
    /\ UNCHANGED rtvars
    /\ UNCHANGED utilvars
    /\ UNCHANGED prepvars

\* _get_lock: lock.is_locked()
IsLocked(p) ==
    /\ pc[p] = "is_locked"
    /\ pc' = [pc EXCEPT ![p] = IF lockfile[stage_name[p]] # NoPid
                                 THEN "pid_exists" ELSE "break_lock"]
    /\ UNCHANGED <<fsvars, invocations, stage_name, idx, lock, tries, task, pending,
                   exit_code, result, hist>>
    /\ UNCHANGED rtvars
    /\ UNCHANGED utilvars
    /\ UNCHANGED prepvars

\* _get_lock: psutil.pid_exists(lock.read_pid()); a live pid raises.
\* read_pid gives None when the file has gone since is_locked, and
\* pid_exists(None) is False (None < 0 in Python 2)
PidExists(p) ==
    /\ pc[p] = "pid_exists"
    /\ IF pid_exists(lockfile[stage_name[p]])
         THEN /\ Leave(p, "Exception", 0)
              /\ hist' = [hist EXCEPT ![p] = NoteFailure(@, idx[p], TRUE)]
         ELSE /\ pc' = [pc EXCEPT ![p] = "break_lock"]
              /\ UNCHANGED <<pending, exit_code, hist>>
    /\ UNCHANGED <<fsvars, invocations, stage_name, idx, lock, tries, task, result>>
    /\ UNCHANGED rtvars
    /\ UNCHANGED utilvars
    /\ UNCHANGED prepvars

\* _get_lock: lock.break_lock() removes the pid file if there is one
BreakLock(p) ==
    /\ pc[p] = "break_lock"
    /\ lockfile' = [lockfile EXCEPT ![stage_name[p]] = NoPid]
    /\ pc' = [pc EXCEPT ![p] = "acquire"]
    /\ UNCHANGED <<weekly, markers, invocations, stage_name, idx, lock, tries, task,
                   pending, exit_code, result, hist>>
    /\ UNCHANGED rtvars
    /\ UNCHANGED utilvars
    /\ UNCHANGED prepvars

\* acquire() without a timeout: the wait does not come nearer to an end
acquire_wait_forever(n) == n

\* PIDLockFile.acquire: the sleep between two tries uses up a part of the
\* timeout
acquire_wait(n) == n + 1

\* _get_lock: lock.acquire(timeout=10) creates the pid file with O_EXCL;
\* while the file exists it sleeps and tries again, until the timeout
\* raises LockTimeout
Acquire(p) ==
    /\ pc[p] = "acquire"
    /\ IF lockfile[stage_name[p]] = NoPid
         THEN /\ lockfile' = [lockfile EXCEPT ![stage_name[p]] = p]
              /\ lock' = [lock EXCEPT ![p] = stage_name[p]]
              /\ pc' = [pc EXCEPT ![p] = "task_list"]
              /\ hist' = [hist EXCEPT ![p].acquired = @ + 1]
              /\ tries' = [tries EXCEPT ![p] = 0]
              /\ UNCHANGED <<pending, exit_code>>
         ELSE IF tries[p] < MaxTries
         THEN /\ tries' = [tries EXCEPT ![p] = acquire_wait(@)]
              /\ UNCHANGED <<lockfile, lock, pc, hist, pending, exit_code>>
         ELSE /\ Leave(p, "LockTimeout", 0)
              /\ hist' = [hist EXCEPT ![p] = NoteFailure(@, idx[p], TRUE)]
              /\ tries' = [tries EXCEPT ![p] = 0]
              /\ UNCHANGED <<lockfile, lock>>
    /\ UNCHANGED <<weekly, markers, invocations, stage_name, idx, task, result>>
    /\ UNCHANGED rtvars
    /\ UNCHANGED utilvars
    /\ UNCHANGED prepvars

\* run_stages: get_task_list_for_stage; no task for the name raises
\* NotImplementedError, otherwise run_tasks starts on the new task objects
TaskList(p) ==
    /\ pc[p] = "task_list"
    /\ LET task_list == get_task_list_for_stage(stage_name[p])
       IN  IF Len(task_list) = 0
           THEN /\ Leave(p, "NotImplementedError", 0)
                /\ hist' = [hist EXCEPT ![p] = NoteFailure(LeaveGetLock(@), idx[p], TRUE)]
                /\ UNCHANGED task
           ELSE /\ task' = [task EXCEPT ![p] = [NewTask EXCEPT !.name = task_list[1]]]
                /\ pc' = [pc EXCEPT ![p] = "can_run"]
                /\ hist' = [hist EXCEPT ![p] = LeaveGetLock(@)]
                /\ UNCHANGED <<pending, exit_code>>
    /\ UNCHANGED <<fsvars, invocations, stage_name, idx, lock, tries, result>>
    /\ UNCHANGED rtvars
    /\ UNCHANGED utilvars
    /\ UNCHANGED prepvars

\* -------------------------------------------------------------- the task
\* D3RTask.update_status_from_filesystem: the status of the task becomes
\* the one its directory gives, nothing else changes
update_status_from_filesystem(t, fs) ==
    [t EXCEPT !.status = get_status_of_dir(fs[t.name])]

\* only a missing upstream directory keeps the task from running
upstream_blocks_missing(upstatus) == upstatus = NOTFOUND_STATUS

\* can_run: the upstream task keeps the task from running
upstream_blocks(upstatus) == upstatus # COMPLETE_STATUS

\* a complete task is not recognised
nothing_to_do_never(status) == FALSE

\* can_run: the task is complete, no work needed
nothing_to_do(status) == status = COMPLETE_STATUS

\* only a task in error counts as attempted
already_attempted_error(status) == status = ERROR_STATUS

\* can_run: the task was already attempted
already_attempted(status) == status # NOTFOUND_STATUS

\* the flag and the error stay what an earlier call left
reset_nothing(t) == t

\* can_run on entry: "self._can_run = False" and "self._error = None"
reset(t) == [t EXCEPT !.can_run = "False", !.error = <<>>]

\* GlideTask.can_run on the task object t: the new values of its fields.
\* The upstream status is derived from the filesystem first; unless it is
\* COMPLETE the task's own status is not looked at
can_run(t, fs) ==
    LET up == Upstream(t.name)
        upstatus == IF up = NoTask THEN COMPLETE_STATUS ELSE get_status_of_dir(fs[up])
        entered == [reset(t) EXCEPT !.upstatus = upstatus]
        own == update_status_from_filesystem(entered, fs)
    IN  IF upstream_blocks(upstatus)
        THEN [entered EXCEPT !.error = <<"upstream has status", up, upstatus>>]
        ELSE IF nothing_to_do(own.status)
        THEN own
        ELSE IF already_attempted(own.status)
        THEN [own EXCEPT !.error = <<"already exists and status is", t.name, own.status>>]
        ELSE [own EXCEPT !.can_run = "True"]

\* the error of a task is not looked at
run_tasks_result_zero(t) == 0

\* run_tasks after task.run() has come back: a task with an error ends the
\* loop with 1, the last task without one ends it with 0
run_tasks_result(t) == IF t.error # <<>> THEN 1 ELSE 0

\* the permission flag is not looked at
cannot_run_never(t) == FALSE

\* GlideTask.run: "if self._can_run is False", run() returns at once
cannot_run(t) == t.can_run = "False"

\* run_tasks calls task.run(); the run of the base class calls can_run()
\* and, with the permission flag True, start().  With the flag False run()
\* returns at once and run_tasks looks at the error of the task
CanRun(p) ==
    /\ pc[p] = "can_run"
    /\ LET t == can_run(task[p], markers)
       IN  /\ task' = [task EXCEPT ![p] = t]
           /\ IF cannot_run(t)
                THEN /\ AfterRunTasks(p, run_tasks_result(t))
                     /\ hist' = [hist EXCEPT ![p] =
                            NoteFailure(@, idx[p], run_tasks_result(t) # 0)]
                ELSE /\ pc' = [pc EXCEPT ![p] = "start"]
                     /\ UNCHANGED <<pending, exit_code, hist>>
    /\ UNCHANGED <<fsvars, invocations, stage_name, idx, lock, tries, result>>
    /\ UNCHANGED rtvars
    /\ UNCHANGED utilvars
    /\ UNCHANGED prepvars

\* D3RTask.start: creates the task directory and the start file in it
Start(p) ==
    /\ pc[p] = "start"
    /\ markers' = [markers EXCEPT ![task[p].name] = WriteMarker(@, START_FILE)]
    /\ task' = [task EXCEPT ![p].status = START_STATUS]
    /\ pc' = [pc EXCEPT ![p] = "run_external_command"]
    /\ UNCHANGED <<weekly, lockfile, invocations, stage_name, idx, lock, tries, pending,
                   exit_code, result, hist>>
    /\ UNCHANGED rtvars
    /\ UNCHANGED utilvars
    /\ UNCHANGED prepvars

\* what the external command does: exit status 0, a non-zero exit status
\* (or a failure to launch), or an exception that leaves run()
Outcomes == {"ok", "failed", "raise"}

\* GlideTask.run after the start: without the tool path the error is set and
\* end() follows; otherwise the external command runs to its end.  An
\* exception leaves run() and is caught in run_tasks, which sets the error
\* of the task and returns 1
RunExternalCommand(p) ==
    /\ pc[p] = "run_external_command"
    /\ \E tool \in BOOLEAN, outcome \in Outcomes :
          IF ~tool
          THEN /\ task' = [task EXCEPT ![p].error = <<"not set">>]
               /\ pc' = [pc EXCEPT ![p] = "end"]
               /\ UNCHANGED <<pending, exit_code, hist>>
          ELSE IF outcome = "raise"
          THEN /\ task' = [task EXCEPT ![p].error = <<"Caught Exception running task">>]
               /\ AfterRunTasks(p, 1)
               /\ hist' = [hist EXCEPT ![p] = NoteFailure(@, idx[p], TRUE)]
          ELSE /\ task' = [task EXCEPT ![p].error =
                      IF outcome = "failed" THEN <<"Non zero exit code">> ELSE <<>>]
               /\ pc' = [pc EXCEPT ![p] = "end"]
               /\ UNCHANGED <<pending, exit_code, hist>>
    /\ UNCHANGED <<fsvars, invocations, stage_name, idx, lock, tries, result>>
    /\ UNCHANGED rtvars
    /\ UNCHANGED utilvars
    /\ UNCHANGED prepvars

\* D3RTask.end: the error file when the task has an error, else the
\* complete file; then run_tasks looks at the error of the task
End(p) ==
    /\ pc[p] = "end"
    /\ LET failed == task[p].error # <<>>
       IN  /\ markers' = [markers EXCEPT ![task[p].name] =
                  WriteMarker(@, IF failed THEN ERROR_FILE ELSE COMPLETE_FILE)]
           /\ task' = [task EXCEPT ![p].status =
                  IF failed THEN ERROR_STATUS ELSE COMPLETE_STATUS]
           /\ AfterRunTasks(p, run_tasks_result(task[p]))
           /\ hist' = [hist EXCEPT ![p] = NoteFailure(@, idx[p], failed)]
    /\ UNCHANGED <<weekly, lockfile, invocations, stage_name, idx, lock, tries, result>>
    /\ UNCHANGED rtvars
    /\ UNCHANGED utilvars
    /\ UNCHANGED prepvars

\* PIDLockFile.release raises NotLocked when there is no pid file and
\* NotMyLock when the file records another pid; with the local "lock"
\* unbound the statement raises UnboundLocalError
ReleaseRaises(p) == lock[p] = "none" \/ lockfile[lock[p]] # p

\* the pid file is left where it is
release_keeps_file(files, s) == files

\* PIDLockFile.release of the lock of the caller: the pid file is removed
release(files, s) == [files EXCEPT ![s] = NoPid]

\* run_stages: the finally block, then what the try block left with: the
\* exception goes on to main, the return returns, otherwise the loop
\* goes to the next stage name or run_stages returns 0
Release(p) ==
    /\ pc[p] = "release"
    /\ lockfile' = IF ReleaseRaises(p) THEN lockfile
                   ELSE release(lockfile, lock[p])
    /\ LET raised == ReleaseRaises(p) \/ pending[p] \in Exceptions
           h == [hist[p] EXCEPT !.released = IF lock[p] = "none" THEN @ ELSE @ + 1]
       IN  IF raised
           THEN Exit(p, "raise", 0, NoteFailure(h, idx[p], TRUE))
           ELSE IF pending[p] = "return"
           THEN Exit(p, "return", exit_code[p], h)
           ELSE \E more \in BOOLEAN, next \in Requested :
                  IF more /\ idx[p] < MaxStages
                  THEN /\ pc' = [pc EXCEPT ![p] = "i_am_locking"]
                       /\ stage_name' = [stage_name EXCEPT ![p] = next]
                       /\ idx' = [idx EXCEPT ![p] = @ + 1]
                       /\ hist' = [hist EXCEPT ![p] =
                              EnterGetLock([h EXCEPT !.done = @ + 1], p, invocations,
                                           lockfile'[next])]
                       /\ pending' = [pending EXCEPT ![p] = "none"]
                       /\ exit_code' = [exit_code EXCEPT ![p] = 0]
                       /\ task' = [task EXCEPT ![p] = NewTask]
                       /\ UNCHANGED <<result, lock, tries>>
                  ELSE Exit(p, "return", 0, [h EXCEPT !.done = @ + 1])
    /\ UNCHANGED <<weekly, markers, invocations>>
    /\ UNCHANGED rtvars
    /\ UNCHANGED utilvars
    /\ UNCHANGED prepvars

\* ------------------------------------------------------- the environment
\* the process is killed (kill -9, out of memory, reboot): its lock file and
\* its marker files stay as they are, its memory is gone
Kill(p) ==
    /\ pc[p] \in Live
    /\ pc' = [pc EXCEPT ![p] = "killed"]
    /\ result' = [result EXCEPT ![p] = NoResult]
    /\ hist' = [hist EXCEPT ![p] = NewHist]
    /\ stage_name' = [stage_name EXCEPT ![p] = "none"]
    /\ idx' = [idx EXCEPT ![p] = 0]
    /\ lock' = [lock EXCEPT ![p] = "none"]
    /\ tries' = [tries EXCEPT ![p] = 0]
    /\ task' = [task EXCEPT ![p] = NewTask]
    /\ pending' = [pending EXCEPT ![p] = "none"]
    /\ exit_code' = [exit_code EXCEPT ![p] = 0]
    /\ UNCHANGED <<fsvars, invocations>>
    /\ UNCHANGED rtvars
    /\ UNCHANGED utilvars
    /\ UNCHANGED prepvars

\* the weekly dataset directory is created from outside
ExternalWeek ==
    /\ ~weekly
    /\ weekly' = TRUE
    /\ UNCHANGED <<markers, lockfile, invocations, pc, stage_name, idx, lock, tries,
                   task, pending, exit_code, result, hist>>
    /\ UNCHANGED rtvars
    /\ UNCHANGED utilvars
    /\ UNCHANGED prepvars

\* the external data import script goes through the life cycle of a task in
\* stage.1.dataimport: the start file, then the complete or the error file
ExternalImport ==
    /\ weekly
    /\ \E m \in MarkerFiles :
          /\ IF markers["dataimport"] = <<>> THEN m = START_FILE
             ELSE m # START_FILE /\ markers["dataimport"] = <<START_FILE>>
          /\ markers' = [markers EXCEPT !["dataimport"] = WriteMarker(@, m)]
    /\ UNCHANGED <<weekly, lockfile, invocations, pc, stage_name, idx, lock, tries,
                   task, pending, exit_code, result, hist>>
    /\ UNCHANGED rtvars
    /\ UNCHANGED utilvars
    /\ UNCHANGED prepvars

Next ==
    \/ \E p \in Procs : RunStagesBegin(p)
    \/ \E p \in Procs : IAmLocking(p)
    \/ \E p \in Procs : IsLocked(p)
    \/ \E p \in Procs : PidExists(p)
    \/ \E p \in Procs : BreakLock(p)
    \/ \E p \in Procs : Acquire(p)
    \/ \E p \in Procs : TaskList(p)
    \/ \E p \in Procs : CanRun(p)
    \/ \E p \in Procs : Start(p)
    \/ \E p \in Procs : RunExternalCommand(p)
    \/ \E p \in Procs : End(p)
    \/ \E p \in Procs : Release(p)
    \/ \E p \in Procs : Kill(p)
    \/ ExternalWeek
    \/ ExternalImport

Spec == Init /\ [][Next]_vars

\* a step of _get_lock
GetLockStep(p) ==
    \/ IAmLocking(p)
    \/ IsLocked(p)
    \/ PidExists(p)
    \/ BreakLock(p)
    \/ Acquire(p)

\* the factory and the stage loop on their own: one process has returned
\* from the _get_lock of its first stage, of any name of the help text, and
\* no other process runs
InitFactory ==
    /\ weekly = TRUE
    /\ markers = [t \in Tasks |-> <<>>]
    /\ invocations = 1
    /\ \E first \in StageNames :
          /\ lockfile = [s \in StageNames |-> IF s = first THEN 1 ELSE NoPid]
          /\ stage_name = [p \in Procs |-> IF p = 1 THEN first ELSE "none"]
          /\ lock = [p \in Procs |-> IF p = 1 THEN first ELSE "none"]
    /\ pc = [p \in Procs |-> IF p = 1 THEN "task_list" ELSE "off"]
    /\ idx = [p \in Procs |-> IF p = 1 THEN 1 ELSE 0]
    /\ tries = [p \in Procs |-> 0]
    /\ task = [p \in Procs |-> NewTask]
    /\ pending = [p \in Procs |-> "none"]
    /\ exit_code = [p \in Procs |-> 0]
    /\ result = [p \in Procs |-> NoResult]
    /\ hist = [p \in Procs |-> IF p = 1 THEN [NewHist EXCEPT !.acquired = 1, !.solo = 1]
                                ELSE NewHist]
    /\ NoRunTasks
    /\ NoUtil
    /\ NoProteinPrep

\* the steps of the stage loop a process alone can take
NextFactory ==
    \/ \E p \in Procs : TaskList(p)
    \/ \E p \in Procs : CanRun(p)
    \/ \E p \in Procs : Start(p)
    \/ \E p \in Procs : RunExternalCommand(p)
    \/ \E p \in Procs : End(p)
    \/ \E p \in Procs : Release(p)
    \/ \E p \in Procs : IAmLocking(p)
    \/ \E p \in Procs : IsLocked(p)
    \/ \E p \in Procs : BreakLock(p)
    \/ \E p \in Procs : Acquire(p)
    \/ ExternalImport

SpecFactory == InitFactory /\ [][NextFactory]_vars

\* a process inside _get_lock that is not killed goes on running: the calls
\* of _get_lock wait for nothing but the sleep of acquire
SpecFair == Spec /\ \A p \in Procs : WF_vars(GetLockStep(p))

\* ------------------------------------------- status derivation on its own
MaxWrites == 3

RECURSIVE FilesIn(_, _)
FilesIn(fs, dirs) ==
    IF dirs = {} THEN 0
    ELSE LET d == CHOOSE x \in dirs : TRUE
         IN  Len(fs[d]) + FilesIn(fs, dirs \ {d})

\* a celppdir with an empty weekly dataset directory
InitStatus ==
    /\ weekly = TRUE
    /\ markers = [t \in Tasks |-> <<>>]
    /\ lockfile = [s \in StageNames |-> NoPid]
    /\ NoProcess
    /\ NoRunTasks
    /\ NoUtil
    /\ NoProteinPrep

\* any marker file appears in any task directory, in any order
ExternalWrite ==
    /\ FilesIn(markers, Tasks) < MaxWrites
    /\ \E t \in Tasks, m \in MarkerFiles :
          /\ m \notin Range(markers[t])
          /\ markers' = [markers EXCEPT ![t] = WriteMarker(@, m)]
    /\ UNCHANGED <<weekly, lockfile, invocations, pc, stage_name, idx, lock, tries,
                   task, pending, exit_code, result, hist>>
    /\ UNCHANGED rtvars
    /\ UNCHANGED utilvars
    /\ UNCHANGED prepvars

\* a task object is made for a directory and its status derived, as can_run
\* does for the upstream task and for the task itself
UpdateStatus(p) ==
    /\ \E t \in Tasks :
          task' = [task EXCEPT ![p] =
                      update_status_from_filesystem([NewTask EXCEPT !.name = t], markers)]
    /\ UNCHANGED <<fsvars, invocations, pc, stage_name, idx, lock, tries, pending,
                   exit_code, result, hist>>
    /\ UNCHANGED rtvars
    /\ UNCHANGED utilvars
    /\ UNCHANGED prepvars

NextStatus ==
    \/ ExternalWrite
    \/ \E p \in Procs : UpdateStatus(p)

SpecStatus == InitStatus /\ [][NextStatus]_vars

\* a task object is constructed for a stage; nothing is called on it yet
NewTaskObject(p) ==
    /\ task[p].name = NoTask
    /\ \E t \in Tasks \ {"dataimport"} :
          task' = [task EXCEPT ![p] = [NewTask EXCEPT !.name = t]]
    /\ UNCHANGED <<fsvars, invocations, pc, stage_name, idx, lock, tries, pending,
                   exit_code, result, hist>>
    /\ UNCHANGED rtvars
    /\ UNCHANGED utilvars
    /\ UNCHANGED prepvars

\* can_run() is called on a task object, for the first time or again
CanRunCall(p) ==
    /\ task[p].name # NoTask
    /\ task' = [task EXCEPT ![p] = can_run(@, markers)]
    /\ UNCHANGED <<fsvars, invocations, pc, stage_name, idx, lock, tries, pending,
                   exit_code, result, hist>>
    /\ UNCHANGED rtvars
    /\ UNCHANGED utilvars
    /\ UNCHANGED prepvars

\* can_run called over and over on task objects while the task directories
\* fill in any way
NextCanRun ==
    \/ ExternalWrite
    \/ \E p \in Procs : NewTaskObject(p)
    \/ \E p \in Procs : CanRunCall(p)

SpecCanRun == InitStatus /\ [][NextCanRun]_vars

\* ------------------------------------------------- run_tasks on its own
MaxTasks == 3

\* what the run() of a task object does: it returns without an error, it
\* sets the error of the task and returns, it raises with no error set, it
\* sets the error and raises
RunOutcomes == {"ok", "error", "raise", "raise_error"}

\* the error of the task object when its run() is over
run(outcome) ==
    IF outcome \in {"error", "raise_error"} THEN <<"Non zero exit code">> ELSE <<>>

\* run_tasks: the except clause sets the error of a task whose run() raised
\* and left none
caught(error, raised) ==
    IF raised /\ error = <<>> THEN <<"Caught Exception running task">> ELSE error

\* a new task object whose run() will do outcome
TaskObject(outcome) == [run |-> outcome, error |-> <<>>]

RECURSIVE ListsOf(_)
ListsOf(n) ==
    IF n = 0 THEN {<<>>}
    ELSE {Append(l, TaskObject(o)) : l \in ListsOf(n - 1), o \in RunOutcomes}

\* the arguments run_tasks is called with: None, the empty list, the lists
\* of up to MaxTasks task objects
TaskLists ==
    {NoList} \cup {[none |-> FALSE, tasks |-> l] : l \in UNION {ListsOf(n) : n \in 0..MaxTasks}}

\* run_tasks is called with any of the arguments
InitRunTasks ==
    /\ weekly = TRUE
    /\ markers = [t \in Tasks |-> <<>>]
    /\ lockfile = [s \in StageNames |-> NoPid]
    /\ NoProcess
    /\ rt_task_list \in TaskLists
    /\ rt_pos = 0
    /\ rt_calls = <<>>
    /\ rt_return = <<>>
    /\ NoUtil
    /\ NoProteinPrep

\* the list without a task
EmptyList == [none |-> FALSE, tasks |-> <<>>]

\* the empty list is answered like None
run_tasks_early_same(task_list) ==
    IF task_list.none \/ Len(task_list.tasks) = 0 THEN <<3>> ELSE <<>>

\* the empty list is answered with success
run_tasks_early_zero(task_list) ==
    IF task_list.none THEN <<3>>
    ELSE IF Len(task_list.tasks) = 0 THEN <<0>> ELSE <<>>

\* run_tasks before its loop: None returns 3, the empty list returns 2,
\* <<>>: no return, the loop begins
run_tasks_early(task_list) ==
    IF task_list.none THEN <<3>>
    ELSE IF Len(task_list.tasks) = 0 THEN <<2>> ELSE <<>>

\* run_tasks up to its loop
RunTasksEnter ==
    /\ rt_return = <<>> /\ rt_pos = 0
    /\ rt_return' = run_tasks_early(rt_task_list)
    /\ rt_pos' = IF rt_return' = <<>> THEN 1 ELSE 0
    /\ UNCHANGED <<rt_task_list, rt_calls>>
    /\ UNCHANGED <<fsvars, invocations, pc, stage_name, idx, lock, tries, task, pending,
                   exit_code, result, hist>>
    /\ UNCHANGED utilvars
    /\ UNCHANGED prepvars

\* run_tasks: one turn of the loop.  task.run() is called, an exception is
\* caught, and a task with an error ends the loop with 1; after the last
\* task run_tasks returns 0
RunTasksLoop ==
    /\ rt_return = <<>> /\ rt_pos > 0
    /\ LET t == rt_task_list.tasks[rt_pos]
           ran == [t EXCEPT !.error = caught(run(t.run), t.run \in {"raise", "raise_error"})]
       IN  /\ rt_calls' = Append(rt_calls, rt_pos)
           /\ rt_task_list' = [rt_task_list EXCEPT !.tasks[rt_pos] = ran]
           /\ IF run_tasks_result(ran) # 0
                THEN rt_return' = <<run_tasks_result(ran)>> /\ rt_pos' = rt_pos
                ELSE IF rt_pos = Len(rt_task_list.tasks)
                THEN rt_return' = <<0>> /\ rt_pos' = rt_pos
                ELSE rt_return' = <<>> /\ rt_pos' = rt_pos + 1
    /\ UNCHANGED <<fsvars, invocations, pc, stage_name, idx, lock, tries, task, pending,
                   exit_code, result, hist>>
    /\ UNCHANGED utilvars
    /\ UNCHANGED prepvars

NextRunTasks ==
    \/ RunTasksEnter
    \/ RunTasksLoop

SpecRunTasks == InitRunTasks /\ [][NextRunTasks]_vars

\* ------------------------------- find_latest_weekly_dataset on its own
\* a directory name is a sequence of characters; of a name dataset.week.<N>
\* the model keeps the characters of <N>
DigitChars == <<"0", "1", "2", "3", "4", "5", "6", "7", "8", "9">>

IsDigit(c) == \E i \in 1..Len(DigitChars) : DigitChars[i] = c

DigitValue(c) == (CHOOSE i \in 1..Len(DigitChars) : DigitChars[i] = c) - 1

\* the name is a number
Numeric(name) == name # <<>> /\ \A i \in 1..Len(name) : IsDigit(name[i])

\* int(name)
RECURSIVE ToInt(_)
ToInt(name) ==
    IF name = <<>> THEN 0
    ELSE 10 * ToInt(SubSeq(name, 1, Len(name) - 1)) + DigitValue(name[Len(name)])

\* the names of the directories a celppdir may hold: years and another
\* directory, and in each of them weeks and another entry
YearNames == {<<"2", "0", "1", "6">>, <<"2", "0", "1", "7">>, <<"t", "m", "p">>}

WeekNames == {<<"3">>, <<"1", "2">>, <<"1">>, <<"x">>}

\* the paths under celppdir: <<year>> and <<year, week>>
Paths == {<<y>> : y \in YearNames} \cup (YearNames \X WeekNames)

\* None, the value for "no dataset"
NoDataset == <<>>

\* the names are compared as text: "3" is behind "12"
order_as_text(name) ==
    IF Len(name) = 1 THEN 10 * ToInt(name) ELSE ToInt(name)

\* the year and the week number are compared as numbers
order(name) == ToInt(name)

\* the name of names that is the last in the order
Latest(names) == CHOOSE n \in names : \A m \in names : order(m) <= order(n)

\* find_latest_weekly_dataset: the latest of the directories named by a
\* number, in it the latest dataset.week.<N>, None without either
find_latest_weekly_dataset(paths) ==
    LET years == {q[1] : q \in {r \in paths : Numeric(r[1])}}
    IN  IF years = {} THEN NoDataset
        ELSE LET year == Latest(years)
                 weeks == {q[2] : q \in {r \in paths : Len(r) = 2 /\ r[1] = year
                                                       /\ Numeric(r[2])}}
             IN  IF weeks = {} THEN NoDataset ELSE <<year, Latest(weeks)>>

\* any set of the directories under celppdir; a week lies in a year
InitLatest ==
    /\ weekly = FALSE
    /\ markers = [t \in Tasks |-> <<>>]
    /\ lockfile = [s \in StageNames |-> NoPid]
    /\ NoProcess
    /\ NoRunTasks
    /\ NoProteinPrep
    /\ celppdir \in {ps \in SUBSET Paths : \A q \in ps : <<q[1]>> \in ps}
    /\ latest_weekly = <<>>
    /\ today = 0
    /\ celp_week = <<>>

\* run_stages: theargs.latest_weekly = util.find_latest_weekly_dataset(...)
FindLatest ==
    /\ latest_weekly = <<>>
    /\ latest_weekly' = <<find_latest_weekly_dataset(celppdir)>>
    /\ weekly' = (latest_weekly' # <<NoDataset>>)
    /\ UNCHANGED <<markers, lockfile, invocations, pc, stage_name, idx, lock, tries, task,
                   pending, exit_code, result, hist, celppdir, today, celp_week>>
    /\ UNCHANGED rtvars
    /\ UNCHANGED prepvars

NextLatest == FindLatest

SpecLatest == InitLatest /\ [][NextLatest]_vars

\* -------------------------- get_celpp_week_of_year_from_date on its own
\* the dates run from the first of January of FirstYear over NumYears years
FirstYear == 2014

NumYears == 4

IsLeap(y) == y % 4 = 0 /\ (y % 100 # 0 \/ y % 400 = 0)

DaysIn(y) == IF IsLeap(y) THEN 366 ELSE 365

\* a date is the count of days since the first of January of FirstYear;
\* the date of the first of January of year y
RECURSIVE FirstDay(_)
FirstDay(y) == IF y <= FirstYear THEN 0 ELSE FirstDay(y - 1) + DaysIn(y - 1)

\* date.year
YearOf(d) == CHOOSE y \in FirstYear..(FirstYear + NumYears) :
                 FirstDay(y) <= d /\ d < FirstDay(y + 1)

\* date.isoweekday() of the first of January of year y, 1: Monday .. 7: Sunday
NewYearWeekday(y) ==
    LET g == (1 + 5 * ((y - 1) % 4) + 4 * ((y - 1) % 100) + 6 * ((y - 1) % 400)) % 7
    IN  IF g = 0 THEN 7 ELSE g

\* date.isoweekday()
isoweekday(d) == ((NewYearWeekday(FirstYear) - 1 + d) % 7) + 1

\* date.isocalendar(): the ISO 8601 year and week, the year and the count
\* of the Thursday of the Monday-to-Sunday week of the date
isocalendar(d) ==
    LET thursday == d - isoweekday(d) + 4
        y == YearOf(thursday)
    IN  <<y, (thursday - FirstDay(y)) \div 7 + 1>>

\* the plain ISO week of the date
get_celpp_week_plain_iso(the_date) ==
    <<isocalendar(the_date)[2], isocalendar(the_date)[1]>>

\* get_celpp_week_of_year_from_date: weeks start on Friday and end on
\* Thursday and are numbered by the ISO 8601 rules: the ISO week and year
\* of the date moved by three days, which makes a Monday of the Friday
get_celpp_week_of_year_from_date(the_date) ==
    <<isocalendar(the_date + 3)[2], isocalendar(the_date + 3)[1]>>

\* the first of January of FirstYear, the week of the day computed
InitWeek ==
    /\ weekly = FALSE
    /\ markers = [t \in Tasks |-> <<>>]
    /\ lockfile = [s \in StageNames |-> NoPid]
    /\ NoProcess
    /\ NoRunTasks
    /\ NoProteinPrep
    /\ celppdir = {}
    /\ latest_weekly = <<>>
    /\ today = 0
    /\ celp_week = <<get_celpp_week_of_year_from_date(today)>>

\* run_stages with createweekdir on the next day:
\* celp_week = util.get_celpp_week_of_year_from_date(date.today())
WeekOfNextDay ==
    /\ today + 1 < FirstDay(FirstYear + NumYears)
    /\ today' = today + 1
    /\ celp_week' = <<get_celpp_week_of_year_from_date(today')>>
    /\ UNCHANGED <<fsvars, invocations, pc, stage_name, idx, lock, tries, task,
                   pending, exit_code, result, hist, celppdir, latest_weekly>>
    /\ UNCHANGED rtvars
    /\ UNCHANGED prepvars

NextWeek == WeekOfNextDay

SpecWeek == InitWeek /\ [][NextWeek]_vars

\* ------------------------------------------- main_proteinprep on its own
\* directories under challenge_data_path, files a glob gives, and HETATM
\* lines of a ligand file
MaxDirs == 2
MaxFiles == 2
MaxAtoms == 2

\* a HETATM line: the atom name in columns 12-16 and whether float() takes
\* the text of its three coordinate columns
HetAtoms == [name : {"C1", "C2"}, xyz : BOOLEAN]

LigandFiles == UNION {[1..n -> HetAtoms] : n \in 0..MaxAtoms}

\* the loop of get_center from line i on: atom_list, multi_ligand, and
\* "False" once float() raised
RECURSIVE get_center_from(_, _, _, _)
get_center_from(xyz_lines, i, atom_list, multi_ligand) ==
    IF i > Len(xyz_lines)
    THEN IF ~multi_ligand
         THEN IF atom_list = {} THEN "ZeroDivisionError" ELSE "lig_center"
         ELSE "False"
    ELSE IF xyz_lines[i].name \in atom_list
    THEN get_center_from(xyz_lines, i + 1, atom_list, TRUE)
    ELSE IF ~xyz_lines[i].xyz
    THEN "False"
    ELSE get_center_from(xyz_lines, i + 1, atom_list \cup {xyz_lines[i].name},
                         multi_ligand)

\* get_center(ligand_pdb): the text of the centre ("lig_center"), False, or
\* the exception of the division by len(atom_list)
get_center(ligand_pdb) == get_center_from(ligand_pdb, 1, {}, FALSE)

\* of a directory under challenge_data_path: whether its name has four
\* characters, how many lig_*.smi and LMCSS-*-lig.pdb files it holds, and
\* the first LMCSS ligand file the glob gives
TargetDirs ==
    {d \in [four : BOOLEAN, smiles : 0..MaxFiles, lmcss : 0..MaxFiles,
            ligand : LigandFiles] : d.lmcss = 0 => d.ligand = <<>>}

\* main_proteinprep is called on a challenge_data_path
InitProteinPrep ==
    /\ weekly = FALSE
    /\ markers = [t \in Tasks |-> <<>>]
    /\ lockfile = [s \in StageNames |-> NoPid]
    /\ NoProcess
    /\ NoRunTasks
    /\ NoUtil
    /\ pot_target_dirs \in UNION {[1..n -> TargetDirs] : n \in 0..MaxDirs}
    /\ pot_target_id = 1
    /\ valid_candidates = {}
    /\ center_txt = {}
    /\ prep_end = "loop"

\* one pass of "for pot_target_id in pot_target_dirs"
PotTargetDir ==
    /\ prep_end = "loop"
    /\ pot_target_id <= Len(pot_target_dirs)
    /\ LET d == pot_target_dirs[pot_target_id]
           ligand_center == get_center(d.ligand)
       IN  IF ~d.four
           THEN /\ pot_target_id' = pot_target_id + 1
                /\ UNCHANGED <<valid_candidates, center_txt, prep_end>>
           ELSE /\ valid_candidates' = valid_candidates \cup {pot_target_id}
                /\ IF d.smiles # 1
                   THEN /\ pot_target_id' = pot_target_id + 1
                        /\ UNCHANGED <<center_txt, prep_end>>
                   ELSE IF d.lmcss = 0
                   THEN /\ prep_end' = "IndexError"
                        /\ UNCHANGED <<pot_target_id, center_txt>>
                   ELSE IF ligand_center = "ZeroDivisionError"
                   THEN /\ prep_end' = "ZeroDivisionError"
                        /\ UNCHANGED <<pot_target_id, center_txt>>
                   ELSE IF ligand_center = "False"
                   THEN /\ pot_target_id' = pot_target_id + 1
                        /\ UNCHANGED <<center_txt, prep_end>>
                   ELSE /\ center_txt' = center_txt \cup {pot_target_id}
                        /\ pot_target_id' = pot_target_id + 1
                        /\ UNCHANGED prep_end
    /\ UNCHANGED <<fsvars, invocations, pc, stage_name, idx, lock, tries, task,
                   pending, exit_code, result, hist, pot_target_dirs>>
    /\ UNCHANGED rtvars
    /\ UNCHANGED utilvars

\* "for target_id in valid_candidates.keys()": the proteins of the
\* directories with a key are prepared and main_proteinprep returns
PrepareProteins ==
    /\ prep_end = "loop"
    /\ pot_target_id > Len(pot_target_dirs)
    /\ prep_end' = "returned"
    /\ UNCHANGED <<fsvars, invocations, pc, stage_name, idx, lock, tries, task,
                   pending, exit_code, result, hist, pot_target_dirs, pot_target_id,
                   valid_candidates, center_txt>>
    /\ UNCHANGED rtvars
    /\ UNCHANGED utilvars

NextProteinPrep ==
    \/ PotTargetDir
    \/ PrepareProteins

SpecProteinPrep == InitProteinPrep /\ [][NextProteinPrep]_vars

\* ================================================================ claims
\* p has returned from _get_lock for stage s and has not yet released
HoldsLock(p, s) ==
    /\ stage_name[p] = s
    /\ \/ pc[p] \in {"task_list", "can_run", "start", "run_external_command", "end"}
       \/ pc[p] = "release" /\ pending[p] \notin {"Exception", "LockTimeout"}

\* p has made a step of its own
Stepped(p) == pc'[p] # pc[p] /\ pc'[p] # "killed"

\* C1: no two live processes hold the lock of the same stage at the same
\* time, whatever the interleaving of the steps of _get_lock.
C1_MutualExclusion ==
    \A p, q \in Procs : \A s \in StageNames :
        p # q => ~(HoldsLock(p, s) /\ HoldsLock(q, s))

\* no other process has been alive since the running _get_lock of p began
Solo(p) == hist[p].solo # 0 /\ hist[p].solo = invocations

\* the lock file of the stage p asks for records a process that is dead
RecordsDead(p) ==
    /\ lockfile[stage_name[p]] \in Procs
    /\ pc[lockfile[stage_name[p]]] \notin Live

\* C2: the pid check of _get_lock lets a lock file pass that records a dead
\* process, break_lock clears the file, and an acquire that returns leaves
\* the file recording the pid of the caller; a call that finds such a file
\* and runs with no other process alive does not raise and does not wait,
\* it returns holding the lock.
C2_StaleLockRecovery ==
    /\ [][\A p \in Procs :
            /\ (pc[p] = "pid_exists" /\ RecordsDead(p) /\ Stepped(p)) =>
                  (pc'[p] = "break_lock" /\ lockfile' = lockfile)
            /\ (pc[p] = "break_lock" /\ Stepped(p)) =>
                  (pc'[p] = "acquire" /\ lockfile'[stage_name[p]] = NoPid)
            /\ (pc[p] = "acquire" /\ pc'[p] = "task_list") =>
                  (lockfile[stage_name[p]] = NoPid /\ lockfile'[stage_name[p]] = p)
         ]_vars
    /\ [](\A p \in Procs :
            (Solo(p) /\ hist[p].stale) =>
                /\ pc[p] \in {"i_am_locking", "is_locked", "pid_exists", "break_lock",
                              "acquire", "task_list"}
                /\ tries[p] = 0
                /\ pc[p] = "acquire" => lockfile[stage_name[p]] = NoPid
                /\ pc[p] = "task_list" => lockfile[stage_name[p]] = p)

\* C2 witness: a stale lock was found and the caller now holds the lock
C2_Witness ==
    \E p \in Procs :
        /\ Solo(p) /\ hist[p].stale
        /\ pc[p] = "task_list"
        /\ lockfile[stage_name[p]] = p

\* the lock file of the stage p asks for records another, live process
HeldByOther(p) ==
    /\ lockfile[stage_name[p]] \in Procs \ {p}
    /\ pc[lockfile[stage_name[p]]] \in Live

\* C3: while the lock file of the stage records another live process, the
\* checks of _get_lock lead to the Exception and never to break_lock or
\* acquire; neither they nor the finally block that follows change a lock
\* file, and the caller ends with the error.
C3_Contention ==
    [][\A p \in Procs :
        /\ (pc[p] \in {"i_am_locking", "is_locked", "pid_exists"}
              /\ HeldByOther(p) /\ Stepped(p)) =>
              /\ lockfile' = lockfile
              /\ pc'[p] = (IF pc[p] = "i_am_locking" THEN "is_locked"
                           ELSE IF pc[p] = "is_locked" THEN "pid_exists"
                           ELSE "release")
              /\ pc[p] = "pid_exists" => /\ pending'[p] = "Exception"
                                         /\ hist'[p].acquired = hist[p].acquired
        /\ (pc[p] = "release" /\ pending[p] = "Exception" /\ Stepped(p)) =>
              /\ lockfile' = lockfile
              /\ pc'[p] = "exited"
              /\ result'[p].how = "raise"
      ]_vars

\* C3 witness: the caller was refused and the holder still holds the lock
C3_Witness ==
    \E p, q \in Procs :
        /\ p # q
        /\ pc[p] = "release" /\ pending[p] = "Exception"
        /\ lockfile[stage_name[p]] = q
        /\ HoldsLock(q, stage_name[p])

\* C4: lock.release() is called once for every return of _get_lock and
\* never after a _get_lock that raised: at no time more releases than
\* acquires, and as many when run_stages has ended.
C4_ScopedRelease ==
    \A p \in Procs :
        /\ hist[p].released <= hist[p].acquired
        /\ pc[p] = "exited" => hist[p].released = hist[p].acquired

\* C5: once a stage has failed the process goes on to no further stage: it
\* is in the finally block of the failing stage or has ended with the
\* failure, and every stage before the failing one ran and released without
\* a failure.
C5_FailFast ==
    \A p \in Procs :
        hist[p].failed_at # 0 =>
            /\ pc[p] \in {"release", "exited"}
            /\ pc[p] = "release" => idx[p] = hist[p].failed_at
            /\ hist[p].done = hist[p].failed_at - 1
            /\ pc[p] = "exited" => (result[p].how = "raise" \/ result[p].value # 0)

\* C5 witness: the second stage failed in its task after the first ran fully
C5_Witness ==
    \E p \in Procs :
        /\ pc[p] = "exited"
        /\ hist[p].failed_at = 2 /\ hist[p].done = 1
        /\ result[p].how = "return" /\ result[p].value = 1

\* C6: a task directory with a marker file exists only if the directory of
\* its upstream task holds the complete file; a task runs only after its
\* can_run saw the upstream COMPLETE, and an upstream seen otherwise leaves
\* the task refused with the error that names the upstream and its status.
C6_DependencyGating ==
    /\ [](\A t \in Tasks :
            (Upstream(t) # NoTask /\ markers[t] # <<>>) =>
                COMPLETE_FILE \in Range(markers[Upstream(t)]))
    /\ [](\A p \in Procs :
            pc[p] \in {"start", "run_external_command", "end"} =>
                task[p].upstatus = COMPLETE_STATUS)
    /\ [][\A p \in Procs :
            (pc[p] = "can_run" /\ Stepped(p)
               /\ Upstream(task[p].name) # NoTask
               /\ ~COMPLETE_FILE \in Range(markers[Upstream(task[p].name)])) =>
               /\ task'[p].can_run = "False"
               /\ task'[p].error = <<"upstream has status", Upstream(task[p].name),
                                     get_status_of_dir(markers[Upstream(task[p].name)])>>
               /\ pc'[p] = "release"
               /\ markers' = markers /\ weekly' = weekly
         ]_vars

\* C6 witness: a task refused for its upstream while another process runs
\* another stage
C6_Witness ==
    \E p, q \in Procs :
        /\ p # q
        /\ pc[p] = "release" /\ task[p].can_run = "False"
        /\ task[p].upstatus = START_STATUS
        /\ pc[q] = "run_external_command"

\* the filesystem gives the status st for task t
DirStatus(t, st) == get_status_of_dir(markers[t]) = st

\* C7: can_run on a task whose directory and whose upstream directory are
\* COMPLETE returns false without an error, run() goes on to nothing,
\* run_tasks gives 0, and no marker file and no directory changes.
C7_IdempotentRerun ==
    [][\A p \in Procs :
        (pc[p] = "can_run" /\ Stepped(p)
           /\ DirStatus(task[p].name, COMPLETE_STATUS)
           /\ (Upstream(task[p].name) # NoTask =>
                  DirStatus(Upstream(task[p].name), COMPLETE_STATUS))) =>
           /\ task'[p].can_run = "False"
           /\ task'[p].error = <<>>
           /\ pc'[p] = "release"
           /\ exit_code'[p] = 0 /\ pending'[p] = "none"
           /\ markers' = markers /\ weekly' = weekly
      ]_vars

\* C7 witness: a complete task was looked at and left alone
C7_Witness ==
    \E p \in Procs :
        /\ pc[p] = "release"
        /\ task[p].can_run = "False" /\ task[p].status = COMPLETE_STATUS
        /\ exit_code[p] = 0

\* C8: can_run on a task whose directory is in START or ERROR returns false
\* with the "already exists and status is" error, run() starts no command,
\* run_tasks gives 1, and no marker file changes.
C8_NoAutomaticRetry ==
    [][\A p \in Procs :
        (pc[p] = "can_run" /\ Stepped(p)
           /\ (DirStatus(task[p].name, START_STATUS)
                 \/ DirStatus(task[p].name, ERROR_STATUS))) =>
           /\ task'[p].can_run = "False"
           /\ task'[p].error = <<"already exists and status is", task[p].name,
                                 get_status_of_dir(markers[task[p].name])>>
           /\ pc'[p] = "release"
           /\ exit_code'[p] = 1
           /\ markers' = markers
      ]_vars

\* C8 witness: a directory left in START by a killed process is refused
C8_Witness ==
    \E p, q \in Procs :
        /\ pc[q] = "killed"
        /\ pc[p] = "release"
        /\ task[p].error = <<"already exists and status is", task[p].name, START_STATUS>>
        /\ markers[task[p].name] = <<START_FILE>>

\* C9: when the runner moves on from a task whose run() wrote the start
\* file, the directory holds exactly one of the complete and the error
\* file, and run() has not raised.
C9_TerminalMarker ==
    \A p \in Procs :
        (pc[p] = "release" /\ task[p].can_run = "True") =>
            /\ Cardinality(Range(markers[task[p].name])
                              \cap {COMPLETE_FILE, ERROR_FILE}) = 1
            /\ task[p].error # <<"Caught Exception running task">>

\* the status the precedence rule gives for a set of marker files
Precedence(files) ==
    CASE COMPLETE_FILE \in files -> COMPLETE_STATUS
      [] COMPLETE_FILE \notin files /\ ERROR_FILE \in files -> ERROR_STATUS
      [] files = {START_FILE} -> START_STATUS
      [] files = {} -> NOTFOUND_STATUS

\* C10: deriving the status of a directory gives COMPLETE if the complete
\* file is there, else ERROR if the error file is, else START if the start
\* file is, else NOTFOUND, whatever the order the files were written in, and
\* changes nothing but the status of the task object.
C10_StatusPrecedence ==
    [][\A p \in Procs :
        task'[p] # task[p] =>
            /\ task'[p].status = Precedence(Range(markers[task'[p].name]))
            /\ [task'[p] EXCEPT !.status = UNKNOWN_STATUS]
                  = [NewTask EXCEPT !.name = task'[p].name]
            /\ fsvars' = fsvars
      ]_vars

\* C10 witness: all three files in a directory, the complete file not the
\* last one written, and the status derived COMPLETE
C10_Witness ==
    \E p \in Procs :
        /\ task[p].name # NoTask
        /\ Len(markers[task[p].name]) = 3
        /\ markers[task[p].name][3] # COMPLETE_FILE
        /\ task[p].status = COMPLETE_STATUS

\* the positions of the task objects whose run() ends with an error on the
\* task, set by run() itself or by run_tasks for the exception
Reporting(l) == {i \in 1..Len(l) : l[i].run # "ok"}

\* the positions 1..n in order
UpTo(n) == [i \in 1..n |-> i]

\* the last position run() is called on: the first reporting one, or the end
LastRun(l) ==
    IF Reporting(l) = {} THEN Len(l)
    ELSE CHOOSE k \in Reporting(l) : \A j \in Reporting(l) : k <= j

\* C11: run_tasks calls run() on the tasks in list order, each at most once,
\* and never on a task behind one that reported an error; it returns 1 with
\* run() called on exactly the tasks up to the first that reports an error,
\* and 0 with run() called once on every task when none does.
C11_SequentialStop ==
    /\ [](LET l == rt_task_list.tasks
          IN  /\ rt_calls = UpTo(Len(rt_calls))
              /\ Len(rt_calls) <= LastRun(l)
              /\ (rt_return # <<>> /\ Len(l) > 0) =>
                    /\ rt_calls = UpTo(LastRun(l))
                    /\ rt_return = <<IF Reporting(l) = {} THEN 0 ELSE 1>>)
    /\ [][rt_calls' # rt_calls =>
            /\ rt_calls' = Append(rt_calls, Len(rt_calls) + 1)
            /\ \A i \in 1..Len(rt_calls) : rt_task_list.tasks[i].error = <<>>
            /\ rt_return = <<>>
         ]_vars

\* C11 witness: of three tasks the second is the first to report an error,
\* run() was called on the first two and run_tasks has returned 1
C11_Witness ==
    /\ Len(rt_task_list.tasks) = 3
    /\ rt_task_list.tasks[1].run = "ok"
    /\ rt_task_list.tasks[2].run # "ok"
    /\ rt_calls = <<1, 2>>
    /\ rt_return = <<1>>

\* C12: a task whose permission flag is not true is left by run() at once:
\* the step that finds the flag false writes no marker file and no
\* directory and goes back to the runner, only a process whose task has the
\* flag true is at the start, the external command or the end of a task,
\* and only such a process writes a marker file.
C12_RunNeedsPermission ==
    /\ [](\A p \in Procs :
            pc[p] \in {"start", "run_external_command", "end"} =>
                task[p].can_run = "True")
    /\ [][\A p \in Procs :
            /\ (pc[p] = "can_run" /\ Stepped(p) /\ task'[p].can_run # "True") =>
                  /\ markers' = markers /\ weekly' = weekly
                  /\ pc'[p] = "release"
            /\ (Stepped(p) /\ markers' # markers) => task[p].can_run = "True"
         ]_vars

\* C12 witness: run() came back from a task refused for a directory left
\* in ERROR, and the directory is as it was
C12_Witness ==
    \E p \in Procs :
        /\ pc[p] = "release"
        /\ task[p].can_run = "False" /\ task[p].status = ERROR_STATUS
        /\ markers[task[p].name] = <<START_FILE, ERROR_FILE>>

\* C13: when get_task_list_for_stage raises for a stage name it does not
\* know, no stage of the run has had its task run: the name is refused
\* before the first stage.
C13_UnknownStageFirst ==
    \A p \in Procs :
        pending[p] = "NotImplementedError" => (idx[p] = 1 /\ hist[p].done = 0)

\* C14: a task found without the path of its tool has no directory, no
\* start file, and is not in ERROR.
C14_MissingToolNoStart ==
    \A p \in Procs :
        task[p].error = <<"not set">> =>
            /\ START_FILE \notin Range(markers[task[p].name])
            /\ ERROR_FILE \notin Range(markers[task[p].name])
            /\ task[p].status # ERROR_STATUS

\* C15: a process whose run_tasks returned 1 for a task that reported an
\* error ends with the exit status 1, and a process ends with the exit
\* status 0 only if no task of it reported an error.
C15_ExitOneOnTaskError ==
    \A p \in Procs :
        (pc[p] = "exited" /\ result[p].how = "return") =>
            /\ result[p].value = 1 => result[p].exit = 1
            /\ result[p].exit = 0 => result[p].value = 0

\* C16: run_tasks returns 3 for None and 3 for the empty list, and the
\* value 2 never comes from run_tasks.
C16_NullOrEmptyThree ==
    /\ (rt_return # <<>> /\ (rt_task_list.none \/ rt_task_list.tasks = <<>>)) =>
            rt_return = <<3>>
    /\ rt_return # <<2>>

\* C16 as the code has it: run_tasks returns 3 for None and 2 for the
\* empty list, 3 for nothing but None and 2 for nothing but the empty list.
C16_NullThreeEmptyTwo ==
    rt_return # <<>> =>
        /\ rt_task_list.none <=> rt_return = <<3>>
        /\ rt_task_list = EmptyList <=> rt_return = <<2>>

\* C16 witness: run_tasks has returned 2 for the empty list
C16_Witness ==
    /\ rt_task_list = EmptyList
    /\ rt_return = <<2>>

\* C17: run_tasks returns for None and for the empty list a value that is
\* not 0 and not the value it returns for the other of the two, and has
\* called run() on no task.
C17_NoneAndEmptyDistinct ==
    /\ (rt_return # <<>> /\ rt_task_list.none) =>
          /\ rt_return[1] # 0
          /\ rt_return # run_tasks_early(EmptyList)
          /\ rt_calls = <<>> /\ rt_pos = 0
    /\ (rt_return # <<>> /\ rt_task_list = EmptyList) =>
          /\ rt_return[1] # 0
          /\ rt_return # run_tasks_early(NoList)
          /\ rt_calls = <<>> /\ rt_pos = 0

\* C17 witness: run_tasks has returned for None
C17_Witness ==
    /\ rt_task_list.none
    /\ rt_return # <<>> /\ rt_return[1] # 0
    /\ rt_calls = <<>>

\* C18: _get_lock called while the lock file of the stage records the pid
\* of the caller goes from i_am_locking straight to break_lock, with no
\* error and the pid check skipped; with no other process alive it then
\* never waits, acquire finds no file, and it returns with the lock file
\* recording the pid of the caller.
C18_ReentrantAcquire ==
    /\ [][\A p \in Procs :
            (pc[p] = "i_am_locking" /\ lockfile[stage_name[p]] = p /\ Stepped(p)) =>
                /\ pc'[p] = "break_lock"
                /\ pending'[p] = "none"
                /\ lockfile' = lockfile
         ]_vars
    /\ [](\A p \in Procs :
            (Solo(p) /\ hist[p].own) =>
                /\ pc[p] \in {"i_am_locking", "break_lock", "acquire", "task_list"}
                /\ pending[p] = "none"
                /\ tries[p] = 0
                /\ pc[p] \in {"i_am_locking", "break_lock"} => lockfile[stage_name[p]] = p
                /\ pc[p] = "acquire" => lockfile[stage_name[p]] = NoPid
                /\ pc[p] = "task_list" =>
                      (lockfile[stage_name[p]] = p /\ lock[p] = stage_name[p]))

\* C18 witness: _get_lock began on a lock file with the caller's pid and has
\* returned with the file recording that pid again
C18_Witness ==
    \E p \in Procs :
        /\ Solo(p) /\ hist[p].own
        /\ pc[p] = "task_list"
        /\ lockfile[stage_name[p]] = p

\* C19: the pid check that finds the lock of the stage held by another
\* live process and the finally block after it write no marker file and no
\* directory, no task object is made for the stage, and the process ends
\* with an exit status that is not 0; a process writes a marker file only
\* in a stage whose _get_lock returned.
C19_ContentionNoWrites ==
    /\ [][\A p \in Procs :
            /\ (pc[p] = "pid_exists" /\ HeldByOther(p) /\ Stepped(p)) =>
                  /\ markers' = markers /\ weekly' = weekly
                  /\ pending'[p] = "Exception"
            /\ (pc[p] = "release" /\ pending[p] = "Exception" /\ Stepped(p)) =>
                  /\ markers' = markers /\ weekly' = weekly
                  /\ pc'[p] = "exited"
                  /\ result'[p].exit # 0
            /\ (Stepped(p) /\ markers' # markers) =>
                  /\ lock[p] = stage_name[p]
                  /\ hist[p].acquired = idx[p]
         ]_vars
    /\ [](\A p \in Procs :
            pending[p] = "Exception" =>
                /\ pc[p] = "release"
                /\ task[p] = NewTask
                /\ hist[p].acquired = idx[p] - 1)

\* C19 witness: a process refused at its first stage has ended with status
\* 2 while the holder of the lock runs its command, and no task directory
\* but the holder's exists
C19_Witness ==
    \E p, q \in Procs :
        /\ p # q
        /\ pc[p] = "exited" /\ result[p].how = "raise" /\ result[p].exit = 2
        /\ hist[p].failed_at = 1 /\ hist[p].acquired = 0
        /\ pc[q] = "run_external_command"
        /\ lockfile[stage_name[q]] = q
        /\ \A t \in Tasks \ {"dataimport", task[q].name} : markers[t] = <<>>

\* C20: a task refused because it is complete, or because its upstream has
\* not completed yet and has not failed, is refused without an error and
\* run_tasks gives 0; a refused task carries an error only if its upstream
\* is in ERROR or its own directory is in START or ERROR.
C20_SilentWhenNotReady ==
    \A p \in Procs :
        (pc[p] = "release" /\ task[p].can_run = "False") =>
            /\ (task[p].upstatus \in {NOTFOUND_STATUS, START_STATUS}
                   \/ task[p].status = COMPLETE_STATUS) =>
                  (task[p].error = <<>> /\ exit_code[p] = 0)
            /\ task[p].error # <<>> =>
                  \/ task[p].upstatus = ERROR_STATUS
                  \/ task[p].status \in {START_STATUS, ERROR_STATUS}

\* the week directories of celppdir in a year named by a number
Datasets(paths) == {q \in paths : Len(q) = 2 /\ Numeric(q[1]) /\ Numeric(q[2])}

\* C21: find_latest_weekly_dataset gives a dataset.week.<N> directory of
\* celppdir whose year no year directory exceeds as a number and whose N no
\* week of that year exceeds as a number; it gives None when celppdir has
\* no year directory or its latest year no week directory.
C21_LatestWeeklyDataset ==
    latest_weekly # <<>> =>
        LET found == latest_weekly[1]
            years == {q \in celppdir : Numeric(q[1])}
        IN  IF \E d \in Datasets(celppdir) : \A q \in years : ToInt(q[1]) <= ToInt(d[1])
            THEN /\ found \in Datasets(celppdir)
                 /\ \A q \in years : ToInt(q[1]) <= ToInt(found[1])
                 /\ \A d \in Datasets(celppdir) :
                        d[1] = found[1] => ToInt(d[2]) <= ToInt(found[2])
            ELSE found = NoDataset

\* C21 witness: of 2016/dataset.week.3, 2016/dataset.week.12 and
\* 2017/dataset.week.1 and 2017/dataset.week.12 the last is found
C21_Witness ==
    /\ {<<<<"2", "0", "1", "6">>, <<"3">>>>, <<<<"2", "0", "1", "6">>, <<"1", "2">>>>,
         <<<<"2", "0", "1", "7">>, <<"1">>>>, <<<<"2", "0", "1", "7">>, <<"3">>>>,
         <<<<"2", "0", "1", "7">>, <<"1", "2">>>>} \subseteq celppdir
    /\ latest_weekly = << <<<<"2", "0", "1", "7">>, <<"1", "2">>>> >>

\* the date is the last Thursday of its year, a day of December
FinalThursday(d) == isoweekday(d) = 4 /\ YearOf(d + 7) # YearOf(d)

\* C22: from a day to the next the (week, year) pair stays the same unless
\* the day is a Thursday; the final Thursday of December has the year of
\* its date and the Friday after it has week 1 of the next year; after any
\* other Thursday the week number goes up by one within the same year.
C22_FridayToThursdayWeeks ==
    /\ [](FinalThursday(today) => celp_week[1][2] = YearOf(today))
    /\ [][today' = today + 1 =>
            /\ isoweekday(today) # 4 => celp_week' = celp_week
            /\ FinalThursday(today) => celp_week'[1] = <<1, YearOf(today) + 1>>
            /\ (isoweekday(today) = 4 /\ ~FinalThursday(today)) =>
                  celp_week'[1] = <<celp_week[1][1] + 1, celp_week[1][2]>>
         ]_vars

\* C22 witness: a Friday after a Thursday of the year before has week 1 of
\* the year after that Thursday's
C22_Witness ==
    /\ today > 0 /\ isoweekday(today) = 5
    /\ celp_week = << <<1, YearOf(today - 1) + 1>> >>

\* the moves of the status of a task directory
Lifecycle == {<<NOTFOUND_STATUS, START_STATUS>>, <<START_STATUS, COMPLETE_STATUS>>,
              <<START_STATUS, ERROR_STATUS>>}

\* C23: in every step the marker files of a task directory stay and at most
\* new ones are added behind them, the status of the directory stays or
\* moves NOTFOUND to START, START to COMPLETE or START to ERROR, and a
\* process writes the start file only into a directory without one.
C23_MonotonicLifecycle ==
    [][/\ \A t \in Tasks :
            /\ Len(markers[t]) <= Len(markers'[t])
            /\ SubSeq(markers'[t], 1, Len(markers[t])) = markers[t]
            /\ \/ get_status_of_dir(markers'[t]) = get_status_of_dir(markers[t])
               \/ <<get_status_of_dir(markers[t]), get_status_of_dir(markers'[t])>>
                      \in Lifecycle
        /\ \A p \in Procs :
            (pc[p] = "start" /\ Stepped(p)) =>
                START_FILE \notin Range(markers[task[p].name])
      ]_vars

\* the steps of _get_lock
GetLockSteps == {"i_am_locking", "is_locked", "pid_exists", "break_lock", "acquire"}

\* the steps between the return of _get_lock and the finally block
StageSteps == {"task_list", "can_run", "start", "run_external_command", "end"}

\* C24: the stages of an invocation are taken one after the other: while a
\* process asks for the lock of its n-th stage it has acquired and released
\* the locks of the n-1 stages before it and all of them ran to their end,
\* while it runs the n-th stage it has exactly that one lock unreleased,
\* and it goes on to the next stage only from the finally block of a stage
\* without a failure, by the step that removes its lock file.
C24_SequentialStages ==
    /\ [](\A p \in Procs :
            /\ pc[p] \in GetLockSteps =>
                  /\ hist[p].acquired = idx[p] - 1
                  /\ hist[p].released = idx[p] - 1
                  /\ hist[p].done = idx[p] - 1
            /\ pc[p] \in StageSteps =>
                  /\ hist[p].acquired = idx[p]
                  /\ hist[p].released = idx[p] - 1
                  /\ lock[p] = stage_name[p])
    /\ [][\A p \in Procs :
            /\ (pc'[p] = "i_am_locking" /\ Stepped(p) /\ pc[p] \in Live) =>
                  /\ pc[p] = "release" /\ pending[p] = "none"
                  /\ idx'[p] = idx[p] + 1
                  /\ lockfile[lock[p]] = p /\ lockfile'[lock[p]] = NoPid
            /\ (Stepped(p) /\ pc[p] \in Live) => idx'[p] \in {0, idx[p], idx[p] + 1}
         ]_vars

\* C24 witness: a process runs the task of its second stage after it gave
\* back the lock of the first, whose lock file is gone
C24_Witness ==
    \E p \in Procs :
        /\ pc[p] = "run_external_command" /\ idx[p] = 2
        /\ stage_name[p] = "pdbprep"
        /\ lockfile["pdbprep"] = p /\ lockfile["blast"] = NoPid
        /\ hist[p].acquired = 2 /\ hist[p].released = 1

\* C25: a process inside _get_lock leaves it: _get_lock returns the lock,
\* or raises into the finally block, or the process is killed; this holds
\* also when another process has created the lock file since the checks.
C25_GetLockTerminates ==
    \A p \in Procs :
        (pc[p] \in {"i_am_locking", "is_locked", "pid_exists", "break_lock", "acquire"})
            ~> (pc[p] \in {"task_list", "release", "killed"})

\* C25 witness: acquire gave up with LockTimeout on a lock file another
\* live process created after the caller's break_lock
C25_Witness ==
    \E p, q \in Procs :
        /\ p # q
        /\ pc[p] = "release" /\ pending[p] = "LockTimeout"
        /\ lockfile[stage_name[p]] = q /\ pc[q] \in Live

\* C26: can_run refuses a task whose upstream is not COMPLETE and leaves
\* its directory as it is; on a task whose upstream is COMPLETE and whose
\* directory is NOTFOUND it returns true and the task starts; and a task
\* that was started is in COMPLETE or ERROR when its run() is over.
C26_RetryAfterUpstream ==
    [][\A p \in Procs :
        /\ (pc[p] = "can_run" /\ Stepped(p) /\ Upstream(task[p].name) # NoTask
               /\ ~DirStatus(Upstream(task[p].name), COMPLETE_STATUS)) =>
              (task'[p].can_run = "False" /\ markers' = markers)
        /\ (pc[p] = "can_run" /\ Stepped(p)
               /\ (Upstream(task[p].name) # NoTask =>
                      DirStatus(Upstream(task[p].name), COMPLETE_STATUS))
               /\ DirStatus(task[p].name, NOTFOUND_STATUS)) =>
              (task'[p].can_run = "True" /\ pc'[p] = "start")
        /\ (pc[p] \in {"start", "run_external_command", "end"} /\ pc'[p] = "release") =>
              get_status_of_dir(markers'[task[p].name]) \in {COMPLETE_STATUS, ERROR_STATUS}
      ]_vars

\* C27: an invocation that finds no weekly dataset directory ends at once:
\* run_stages returns 0, no lock file, marker file or directory is created
\* or changed, no process enters the stage loop; a process is in the stage
\* loop only if a weekly dataset directory exists.
C27_NoDatasetNoEffect ==
    /\ [](\A p \in Procs : pc[p] \in Live => weekly)
    /\ [][(invocations' = invocations + 1 /\ ~weekly') =>
            /\ fsvars' = fsvars
            /\ \A p \in Procs : pc'[p] \in Live => (pc[p] \in Live /\ pc'[p] = pc[p])
            /\ \E p \in Procs :
                  /\ pc[p] \notin Live /\ pc'[p] = "exited"
                  /\ result'[p] = [how |-> "return", value |-> 0, exit |-> 0]
                  /\ hist'[p] = NewHist
                  /\ lock'[p] = "none" /\ task'[p] = NewTask
         ]_vars

\* C27 witness: an invocation has ended with 0 in a celppdir without a
\* weekly dataset directory, no lock file and no task directory
C27_Witness ==
    /\ ~weekly /\ invocations > 0
    /\ \E p \in Procs : pc[p] = "exited" /\ result[p] = [how |-> "return", value |-> 0, exit |-> 0]
    /\ \A s \in StageNames : lockfile[s] = NoPid
    /\ \A t \in Tasks : markers[t] = <<>>

\* C28: a process that writes a marker file into the task directory of a
\* stage is, in the state it writes in, the process whose pid the lock file
\* of that stage records.
C28_WritesUnderLock ==
    [][\A p \in Procs :
        (Stepped(p) /\ markers' # markers) =>
            /\ stage_name[p] \in KnownStages
            /\ lockfile[stage_name[p]] = p
      ]_vars

\* p is between the start file and the terminal marker file of its task
Running(p) == pc[p] \in {"run_external_command", "end"}

\* C29: no two processes are at the same time between the start file and
\* the terminal marker file of the same task, and the start step, which is
\* followed by the launch of the external command, is taken on a task only
\* while its directory has no marker file: once for a task.
C29_AtMostOnce ==
    /\ [](\A p, q \in Procs :
            (p # q /\ Running(p) /\ Running(q)) => task[p].name # task[q].name)
    /\ [][\A p \in Procs :
            (pc[p] = "start" /\ Stepped(p)) => markers[task[p].name] = <<>>
         ]_vars

C31_CanRunRepeatable ==
    [][\A p \in Procs :
          (task[p].name # NoTask /\ task'[p] # task[p]) =>
              /\ fsvars' = fsvars
              /\ task'[p].can_run \in {"True", "False"}
              /\ task'[p] = can_run([task[p] EXCEPT !.can_run = "None", !.error = <<>>],
                                    markers)
              /\ can_run(task'[p], markers') = task'[p]
              /\ task'[p].can_run = "True" =>
                    /\ task'[p].error = <<>>
                    /\ task'[p].status = NOTFOUND_STATUS
                    /\ get_status_of_dir(markers'[task'[p].name]) = NOTFOUND_STATUS]_vars

\* can_run returned true on an object whose upstream task is complete, and
\* had refused another object with an error
C31_Witness ==
    \E p, q \in Procs :
        /\ task[p].can_run = "True"
        /\ Upstream(task[p].name) # NoTask
        /\ task[p].upstatus = COMPLETE_STATUS
        /\ task[q].can_run = "False"
        /\ task[q].error # <<>>

\* the input of a target directory is missing or ambiguous
Unusable(d) ==
    \/ d.smiles # 1
    \/ d.lmcss # 1
    \/ get_center(d.ligand) # "lig_center"

\* C32: a target directory with a missing or ambiguous input is skipped and
\* the loop goes on.  No exception ends main_proteinprep; a directory the
\* loop has passed with not exactly one ligand smiles file, not exactly one
\* LMCSS ligand file or a centre that cannot be computed has no center.txt;
\* and when main_proteinprep has returned every directory with a name of
\* four characters and usable input has its center.txt
C32_SkipAndContinue ==
    /\ prep_end \in {"off", "loop", "returned"}
    /\ \A i \in 1..Len(pot_target_dirs) :
          (i < pot_target_id /\ Unusable(pot_target_dirs[i])) => i \notin center_txt
    /\ prep_end = "returned" =>
          \A i \in 1..Len(pot_target_dirs) :
              (pot_target_dirs[i].four /\ ~Unusable(pot_target_dirs[i])) => i \in center_txt

TypeOK ==
    /\ weekly \in BOOLEAN
    /\ \A t \in Tasks : Range(markers[t]) \subseteq MarkerFiles
    /\ \A s \in StageNames : lockfile[s] \in Procs \cup {NoPid}
    /\ \A p \in Procs : pc[p] \in Live \cup {"off", "exited", "killed"}

====
